---- MODULE Spec2Model ----
(***************************************************************************)
(* Model of the elastic CountService request builder (count.go) and of the *)
(* FetchSourceContext value object.                                        *)
(*                                                                         *)
(* Strings that the code builds (URL, path, query string) are sequences of *)
(* one-character strings, so that joining, percent-encoding and splitting  *)
(* are computed and not assumed.  A Go slice is a record                   *)
(* [isNil, elems]; an error value is a string, "" standing for nil.        *)
(***************************************************************************)
EXTENDS Integers, Sequences, FiniteSets, TLC

VARIABLES s, last, added, fsc, fscLast, fscAdded

vars == <<s, last, added, fsc, fscLast, fscAdded>>

csVars == <<s, last, added>>

fscVars == <<fsc, fscLast, fscAdded>>

\* ---------------------------------------------------------------- bounds
\* longest index list / type list / include list / exclude list explored
MaxLen == 2

\* largest number of arguments passed to a variadic call
MaxArgs == 2

\* ---------------------------------------------------------------- inputs
\* names handed to Index/Type/Include/Exclude: a plain one, and one made of
\* the path delimiter and the query-string delimiter
Names == { <<"a">>, <<"/", "?">> }

\* argument lists of the variadic calls
ArgLists == UNION { [1..n -> Names] : n \in 0..MaxArgs }

\* query objects: none, two serialisable ones, one whose Source() cannot
\* be marshalled to JSON
NilQuery == "nil"

Queries == { NilQuery, "q1", "q2", "qNaN" }

\* values of the "count" field a response body may carry
Counts == { 0, 7 }

\* ---------------------------------------------------------------- slices
NilSlice == [isNil |-> TRUE, elems |-> <<>>]

MakeSlice == [isNil |-> FALSE, elems |-> <<>>]

GoAppend(sl, xs) == [isNil |-> sl.isNil /\ xs = <<>>, elems |-> sl.elems \o xs]

\* ---------------------------------------------------------------- strings
RECURSIVE Join(_, _)
Join(parts, sep) ==
    IF parts = <<>> THEN <<>>
    ELSE IF Len(parts) = 1 THEN parts[1]
    ELSE parts[1] \o sep \o Join(Tail(parts), sep)

Unreserved ==
    { "a", "b", "c", "e", "f", "l", "n", "o", "p", "r", "s", "t", "u", "y", "_" }

PctEncode(c) ==
    CASE c = "/" -> <<"%", "2", "F">>
      [] c = "?" -> <<"%", "3", "F">>
      [] c = "," -> <<"%", "2", "C">>
      [] OTHER   -> <<"%", "2", "5">>

RECURSIVE Escape(_)
Escape(str) ==
    IF str = <<>> THEN <<>>
    ELSE (IF str[1] \in Unreserved THEN <<str[1]>> ELSE PctEncode(str[1]))
         \o Escape(Tail(str))

\* uritemplates.Expand("{index}", {"index": name}): the percent-encoded name,
\* or an error for the names the collaborator rejects
Expand(name, bad) ==
    IF name \in bad THEN [err |-> "expand", val |-> <<>>]
    ELSE [err |-> "", val |-> Escape(name)]

\* the loop of Do over s.indices (and over s.types): stops at the first error
RECURSIVE ExpandPart(_, _, _)
ExpandPart(names, bad, part) ==
    IF names = <<>> THEN [err |-> "", part |-> part]
    ELSE LET e == Expand(names[1], bad)
         IN IF e.err # "" THEN [err |-> e.err, part |-> part]
            ELSE ExpandPart(Tail(names), bad, Append(part, e.val))

\* ---------------------------------------------------------------- query
\* Query.Source(): the serialisable representation of a query object
QuerySource(q) ==
    CASE q = "q1"   -> "src1"
      [] q = "q2"   -> "src2"
      [] q = "qNaN" -> "srcNaN"
      [] OTHER      -> "null"

\* json.Marshal succeeds on every value but the ones JSON cannot express
Marshalable(data) == \A kv \in { data[i] : i \in 1..Len(data) } : kv[2] # "srcNaN"

\* ---------------------------------------------------------------- request
S_count == <<"_", "c", "o", "u", "n", "t">>

S_pretty == <<"p", "r", "e", "t", "t", "y">>

\* fmt.Sprintf("%v", b) of a bool
Sprintf(b) == IF b THEN <<"t", "r", "u", "e">> ELSE <<"f", "a", "l", "s", "e">>

\* url.Values.Set: one value per key, keys kept in sorted order (one key here)
ParamsSet(params, key, value) ==
    IF \E i \in 1..Len(params) : params[i][1] = key
    THEN [i \in 1..Len(params) |->
             IF params[i][1] = key THEN <<key, value>> ELSE params[i]]
    ELSE Append(params, <<key, value>>)

\* url.Values.Encode: escaped key=value pairs joined with "&"
Encode(params) ==
    Join([i \in 1..Len(params) |->
             Escape(params[i][1]) \o <<"=">> \o Escape(params[i][2])], <<"&">>)

ParamsAlways(pretty) == ParamsSet(<<>>, S_pretty, Sprintf(pretty))

\* the url.Values of Do: "pretty" is set only when s.pretty is true
Params(pretty) ==
    IF pretty THEN ParamsSet(<<>>, S_pretty, Sprintf(pretty)) ELSE <<>>

\* the URL string Do builds from the encoded parts and the parameters
BuildUrls(indexPart, typesPart, params) ==
    LET u0 == <<"/">>
        u1 == IF Len(indexPart) > 0 THEN u0 \o Join(indexPart, <<",">>) ELSE u0
        u2 == IF Len(typesPart) > 0
              THEN u1 \o <<"/">> \o Join(typesPart, <<",">>) ELSE u1
        u3 == u2 \o <<"/">> \o S_count
    IN IF Len(params) > 0 THEN u3 \o <<"?">> \o Encode(params) ELSE u3

\* position of the first "?" of a URL string, 0 when there is none
FirstQuestionMark(urls) ==
    IF \E i \in 1..Len(urls) : urls[i] = "?"
    THEN CHOOSE i \in 1..Len(urls) :
             urls[i] = "?" /\ \A j \in 1..(i - 1) : urls[j] # "?"
    ELSE 0

\* Client.NewRequest(method, urls): a request without body whose path is
\* what precedes the first "?" and whose query string is what follows it
NewRequest(method, urls, fails) ==
    LET q == FirstQuestionMark(urls)
    IN IF fails THEN [err |-> "newreq", req |-> <<>>]
       ELSE [err |-> "",
             req |-> << [method |-> method,
                         path   |-> IF q = 0 THEN urls ELSE SubSeq(urls, 1, q - 1),
                         query  |-> IF q = 0 THEN <<>> ELSE SubSeq(urls, q + 1, Len(urls)),
                         body   |-> <<>>] >>]

\* Request.SetBodyJson(data): marshals data and installs it as the body; on
\* a marshalling error the request is left as it was and the error returned
SetBodyJson(req, data) ==
    IF Marshalable(data) THEN [err |-> "", req |-> [req EXCEPT !.body = data]]
    ELSE [err |-> "marshal", req |-> req]

\* checkResponse(res): inspects the response, never closes its body
checkResponse(o) == IF o.fail = "status" THEN "status" ELSE ""

DecodeKeepsPartial(o) ==
    IF o.fail = "decode" THEN [count |-> o.count, err |-> "decode"]
    ELSE [count |-> o.count, err |-> ""]

\* json.NewDecoder(res.Body).Decode(ret) and the two returns that follow it;
\* o.count is what the decoder stored in ret.Count, also when it then failed
Decode(o) ==
    IF o.fail = "decode" THEN [count |-> 0, err |-> "decode"]
    ELSE [count |-> o.count, err |-> ""]

\* outcomes of the collaborators during one Do
Outcomes ==
    { [fail |-> "expand", bad |-> {n}, count |-> 0] : n \in Names }
    \cup { [fail |-> f, bad |-> {}, count |-> 0] : f \in {"newreq", "transport", "status"} }
    \cup { [fail |-> f, bad |-> {}, count |-> c] : f \in {"decode", ""}, c \in Counts }

\* ---------------------------------------------------------------- CountService
NewCountService ==
    [indices |-> NilSlice, types |-> NilSlice, query |-> NilQuery,
     debug |-> FALSE, pretty |-> FALSE]

\* what the most recent call returned and did: a mutator returns the
\* receiver; Do returns (count, err), may hand a request to the HTTP client
\* (sent), may leave a response body open or closed, may dump to stdout;
\* repeat tells that the call before this Do was a Do as well
Returned(call) ==
    [call |-> call, count |-> 0, err |-> "", sent |-> <<>>, body |-> "none",
     dumps |-> 0, repeat |-> FALSE]

DoReturned(count, err, sent, body, dumps) ==
    [call |-> "Do", count |-> count, err |-> err, sent |-> sent, body |-> body,
     dumps |-> dumps, repeat |-> last.call = "Do"]

\* arguments of the calls made so far, in call order
NoneAdded == [idx |-> <<>>, typ |-> <<>>, query |-> NilQuery, pretty |-> FALSE]

IndexPrepends(index) ==
    /\ Len(s.indices.elems) < MaxLen
    /\ s' = [s EXCEPT !.indices = [isNil |-> FALSE, elems |-> <<index>> \o s.indices.elems]]
    /\ last' = Returned("Index")
    /\ added' = [added EXCEPT !.idx = @ \o <<index>>]
    /\ UNCHANGED fscVars

Index(index) ==
    /\ Len(s.indices.elems) < MaxLen
    /\ s' = [s EXCEPT !.indices =
                GoAppend(IF s.indices.isNil THEN MakeSlice ELSE s.indices, <<index>>)]
    /\ last' = Returned("Index")
    /\ added' = [added EXCEPT !.idx = @ \o <<index>>]
    /\ UNCHANGED fscVars

Indices(indices) ==
    /\ Len(s.indices.elems) + Len(indices) <= MaxLen
    /\ s' = [s EXCEPT !.indices =
                GoAppend(IF s.indices.isNil THEN MakeSlice ELSE s.indices, indices)]
    /\ last' = Returned("Indices")
    /\ added' = [added EXCEPT !.idx = @ \o indices]
    /\ UNCHANGED fscVars

Type(typ) ==
    /\ Len(s.types.elems) < MaxLen
    /\ s' = [s EXCEPT !.types =
                GoAppend(IF s.types.isNil THEN MakeSlice ELSE s.types, <<typ>>)]
    /\ last' = Returned("Type")
    /\ added' = [added EXCEPT !.typ = @ \o <<typ>>]
    /\ UNCHANGED fscVars

Types(types) ==
    /\ Len(s.types.elems) + Len(types) <= MaxLen
    /\ s' = [s EXCEPT !.types =
                GoAppend(IF s.types.isNil THEN MakeSlice ELSE s.types, types)]
    /\ last' = Returned("Types")
    /\ added' = [added EXCEPT !.typ = @ \o types]
    /\ UNCHANGED fscVars

Query(query) ==
    /\ s' = [s EXCEPT !.query = query]
    /\ last' = Returned("Query")
    /\ added' = [added EXCEPT !.query = query]
    /\ UNCHANGED fscVars

Pretty(pretty) ==
    /\ s' = [s EXCEPT !.pretty = pretty]
    /\ last' = Returned("Pretty")
    /\ added' = [added EXCEPT !.pretty = pretty]
    /\ UNCHANGED fscVars

Debug(debug) ==
    /\ s' = [s EXCEPT !.debug = debug]
    /\ last' = Returned("Debug")
    /\ UNCHANGED <<added, fscVars>>

ReceiverLosesQuery(svc) == [svc EXCEPT !.query = NilQuery]

\* the receiver when Do returns: Do reads its fields and assigns none
Receiver(svc) == svc

Do(o) ==
    LET indexPart == ExpandPart(s.indices.elems, o.bad, <<>>)
        typesPart == ExpandPart(s.types.elems, o.bad, <<>>)
        urls      == BuildUrls(indexPart.part, typesPart.part, Params(s.pretty))
        nr        == NewRequest("POST", urls, o.fail = "newreq")
        req       == IF s.query # NilQuery
                     THEN <<SetBodyJson(nr.req[1],
                                        << <<"query", QuerySource(s.query)>> >>).req>>
                     ELSE nr.req
        dumpOut   == IF s.debug THEN 1 ELSE 0
        dumpIn    == IF s.debug THEN 1 ELSE 0
        dec       == Decode(o)
    IN /\ s' = Receiver(s)
       /\ UNCHANGED <<added, fscVars>>
       /\ last' =
            IF indexPart.err # "" THEN DoReturned(0, indexPart.err, <<>>, "none", 0)
            ELSE IF typesPart.err # "" THEN DoReturned(0, typesPart.err, <<>>, "none", 0)
            ELSE IF nr.err # "" THEN DoReturned(0, nr.err, <<>>, "none", 0)
            ELSE IF o.fail = "transport"
                 THEN DoReturned(0, "transport", req, "none", dumpOut)
            ELSE IF checkResponse(o) # ""
                 THEN DoReturned(0, checkResponse(o), req, "open", dumpOut)
            ELSE DoReturned(dec.count, dec.err, req, "closed", dumpOut + dumpIn)

\* the CountService after construction, and its operations
CSInit ==
    /\ s = NewCountService
    /\ last = Returned("NewCountService")
    /\ added = NoneAdded

CSNext ==
    \/ \E index \in Names : Index(index)
    \/ \E indices \in ArgLists : Indices(indices)
    \/ \E typ \in Names : Type(typ)
    \/ \E types \in ArgLists : Types(types)
    \/ \E query \in Queries : Query(query)
    \/ \E pretty \in BOOLEAN : Pretty(pretty)
    \/ \E debug \in BOOLEAN : Debug(debug)
    \/ \E o \in Outcomes : Do(o)

\* ---------------------------------------------------------------- FetchSourceContext
NewFetchSourceContext(fetchSource) ==
    [fetchSource |-> fetchSource, transformSource |-> FALSE,
     includes |-> MakeSlice, excludes |-> MakeSlice]

\* what the most recent call returned: nothing, the receiver, a bool, or a
\* mapping (kept in a sequence of at most one element)
FscReturned(call, kind, val, map) ==
    [call |-> call, kind |-> kind, val |-> val, map |-> map]

NoneAddedFsc == [inc |-> <<>>, exc |-> <<>>]

FetchSource ==
    /\ fscLast' = FscReturned("FetchSource", "bool", fsc.fetchSource, <<>>)
    /\ UNCHANGED <<fsc, fscAdded, csVars>>

SetFetchSource(fetchSource) ==
    /\ fsc' = [fsc EXCEPT !.fetchSource = fetchSource]
    /\ fscLast' = FscReturned("SetFetchSource", "void", FALSE, <<>>)
    /\ UNCHANGED <<fscAdded, csVars>>

Include(includes) ==
    /\ Len(fsc.includes.elems) + Len(includes) <= MaxLen
    /\ fsc' = [fsc EXCEPT !.includes = GoAppend(fsc.includes, includes)]
    /\ fscLast' = FscReturned("Include", "self", FALSE, <<>>)
    /\ fscAdded' = [fscAdded EXCEPT !.inc = @ \o includes]
    /\ UNCHANGED csVars

ExcludeIntoIncludes(excludes) ==
    /\ Len(fsc.excludes.elems) + Len(excludes) <= MaxLen
    /\ Len(fsc.includes.elems) + Len(excludes) <= MaxLen
    /\ fsc' = [fsc EXCEPT !.includes = GoAppend(fsc.includes, excludes)]
    /\ fscLast' = FscReturned("Exclude", "self", FALSE, <<>>)
    /\ fscAdded' = [fscAdded EXCEPT !.exc = @ \o excludes]
    /\ UNCHANGED csVars

Exclude(excludes) ==
    /\ Len(fsc.excludes.elems) + Len(excludes) <= MaxLen
    /\ fsc' = [fsc EXCEPT !.excludes = GoAppend(fsc.excludes, excludes)]
    /\ fscLast' = FscReturned("Exclude", "self", FALSE, <<>>)
    /\ fscAdded' = [fscAdded EXCEPT !.exc = @ \o excludes]
    /\ UNCHANGED csVars

TransformSource(transformSource) ==
    /\ fsc' = [fsc EXCEPT !.transformSource = transformSource]
    /\ fscLast' = FscReturned("TransformSource", "self", FALSE, <<>>)
    /\ UNCHANGED <<fscAdded, csVars>>

SourceWhenListsSet ==
    /\ fscLast' =
         IF ~fsc.fetchSource /\ fsc.includes.elems = <<>> /\ fsc.excludes.elems = <<>>
         THEN FscReturned("Source", "bool", FALSE, <<>>)
         ELSE FscReturned("Source", "map", FALSE,
                          << [includes |-> fsc.includes, excludes |-> fsc.excludes] >>)
    /\ UNCHANGED <<fsc, fscAdded, csVars>>

Source ==
    /\ fscLast' =
         IF ~fsc.fetchSource
         THEN FscReturned("Source", "bool", FALSE, <<>>)
         ELSE FscReturned("Source", "map", FALSE,
                          << [includes |-> fsc.includes, excludes |-> fsc.excludes] >>)
    /\ UNCHANGED <<fsc, fscAdded, csVars>>

FSCInit ==
    /\ \E fetchSource \in BOOLEAN :
          /\ fsc = NewFetchSourceContext(fetchSource)
          /\ fscLast = FscReturned("NewFetchSourceContext", "self", FALSE, <<>>)
    /\ fscAdded = NoneAddedFsc

FSCNext ==
    \/ FetchSource
    \/ \E fetchSource \in BOOLEAN : SetFetchSource(fetchSource)
    \/ \E includes \in ArgLists : Include(includes)
    \/ \E excludes \in ArgLists : Exclude(excludes)
    \/ \E transformSource \in BOOLEAN : TransformSource(transformSource)
    \/ Source

\* ---------------------------------------------------------------- specifications
\* a CountService in use, next to a FetchSourceContext nobody touches
Init ==
    /\ CSInit
    /\ fsc = NewFetchSourceContext(FALSE)
    /\ fscLast = FscReturned("NewFetchSourceContext", "self", FALSE, <<>>)
    /\ fscAdded = NoneAddedFsc

Next == CSNext

Spec == Init /\ [][Next]_vars

\* a FetchSourceContext in use, next to a CountService nobody touches
FSCStart == FSCInit /\ CSInit

FSCSpec == FSCStart /\ [][FSCNext]_vars

\* ---------------------------------------------------------------- properties
\* the request the last Do handed to the HTTP client
Sent == last.sent[1]

\* the encoded names joined by commas
EncJoin(names) == Join([i \in 1..Len(names) |-> Escape(names[i])], <<",">>)

HasEmptySegment(path) ==
    \E i \in 1..(Len(path) - 1) : path[i] = "/" /\ path[i + 1] = "/"

\* C1: whenever Do returns a non-nil error the returned count is 0 (so a
\* non-zero count only ever comes with a nil error)
C1_ErrorMeansZeroCount ==
    (last.call = "Do" /\ last.err # "") => last.count = 0

C1_Witness ==
    last.call = "Do" /\ last.err = "decode" /\ last.count = 0 /\ last.body = "closed"

\* C2: with an empty index list the path of the request is /_count when
\* there are no types and /<types>/_count otherwise, and it never holds an
\* empty segment
C2_NoIndexPath ==
    (last.call = "Do" /\ last.sent # <<>> /\ s.indices.elems = <<>>) =>
        /\ Sent.path = IF s.types.elems = <<>>
                       THEN <<"/">> \o S_count
                       ELSE <<"/">> \o EncJoin(s.types.elems) \o <<"/">> \o S_count
        /\ ~HasEmptySegment(Sent.path)

\* C3: when the calls made so far added a non-empty list of indices, the
\* path of the request is "/" + the encoded indices joined by commas in the
\* order added + ("/" + the encoded types joined by commas in the order
\* added, when any was added) + "/_count"
C3_IndexPath ==
    (last.call = "Do" /\ last.sent # <<>> /\ added.idx # <<>>) =>
        Sent.path = <<"/">> \o EncJoin(added.idx)
                    \o (IF added.typ # <<>> THEN <<"/">> \o EncJoin(added.typ) ELSE <<>>)
                    \o <<"/">> \o S_count

C3_Witness ==
    /\ last.call = "Do"
    /\ last.sent # <<>>
    /\ added.idx = << <<"/", "?">>, <<"a">> >>
    /\ added.typ = << <<"a">>, <<"a">> >>
    /\ Sent.path = <<"/", "%", "2", "F", "%", "3", "F", ",", "a",
                     "/", "a", ",", "a", "/", "_", "c", "o", "u", "n", "t">>

\* C4: when the query set cannot be serialised to JSON, Do returns
\* (0, error) and hands no request to the HTTP client
C4_SerializationFailureShortCircuits ==
    (last.call = "Do" /\ s.query # NilQuery
       /\ ~Marshalable(<< <<"query", QuerySource(s.query)>> >>)) =>
        (last.count = 0 /\ last.err # "" /\ last.sent = <<>>)

\* C5: a Do step leaves every field of the CountService unchanged, and when
\* it directly follows another Do and both issued a request, the two
\* requests agree in method, path, query string and body
C5_DoLeavesServiceUnchanged ==
    [][ last'.call = "Do" =>
           /\ s' = s
           /\ (last.call = "Do" /\ last.sent # <<>> /\ last'.sent # <<>>)
                 => last'.sent = last.sent ]_vars

C5_Witness ==
    /\ last.call = "Do"
    /\ last.repeat
    /\ last.sent # <<>>
    /\ last.err = "status"
    /\ s.query = "q1"
    /\ s.pretty
    /\ s.indices.elems # <<>>

\* C6: the query string of the request is exactly pretty=true when the last
\* Pretty call set true, and there is no query string otherwise
C6_QueryString ==
    (last.call = "Do" /\ last.sent # <<>>) =>
        Sent.query = IF added.pretty
                     THEN <<"p", "r", "e", "t", "t", "y", "=", "t", "r", "u", "e">>
                     ELSE <<>>

C6_Witness ==
    /\ last.call = "Do"
    /\ last.sent # <<>>
    /\ added.pretty
    /\ s.debug
    /\ added.query # NilQuery
    /\ added.idx # <<>>
    /\ Len(Sent.query) = 11

\* C7: Source returns the literal false whenever fetchSource is false,
\* whatever includes, excludes and transformSource hold, and a mapping only
\* when fetchSource is true
C7_SourceFalseWhenSwitchedOff ==
    fscLast.call = "Source" =>
        IF ~fsc.fetchSource
        THEN fscLast.kind = "bool" /\ fscLast.val = FALSE /\ fscLast.map = <<>>
        ELSE fscLast.kind = "map"

C7_Witness ==
    /\ fscLast.call = "Source"
    /\ ~fsc.fetchSource
    /\ fsc.transformSource
    /\ fsc.includes.elems # <<>>
    /\ fsc.excludes.elems # <<>>
    /\ fscLast.kind = "bool"

\* C8: includes is the concatenation of the arguments of the Include calls
\* in call order and excludes that of the Exclude calls; with fetchSource
\* true Source returns a mapping whose two keys hold exactly these lists,
\* an empty list and not a missing key or null when nothing was added
C8_IncludeExcludeAdditive ==
    /\ fsc.includes.elems = fscAdded.inc
    /\ fsc.excludes.elems = fscAdded.exc
    /\ (fscLast.call = "Source" /\ fsc.fetchSource) =>
          /\ fscLast.kind = "map"
          /\ Len(fscLast.map) = 1
          /\ DOMAIN fscLast.map[1] = {"includes", "excludes"}
          /\ fscLast.map[1].includes = [isNil |-> FALSE, elems |-> fscAdded.inc]
          /\ fscLast.map[1].excludes = [isNil |-> FALSE, elems |-> fscAdded.exc]

C8_Witness ==
    /\ fscLast.call = "Source"
    /\ fsc.fetchSource
    /\ fscAdded.inc = << <<"a">>, <<"a">> >>
    /\ fscAdded.exc = <<>>
    /\ fscLast.map[1].excludes = MakeSlice

\* C9: the request carries a body iff the last Query call set a non-nil
\* query, and that body is the single key query holding the Source() of
\* that query
C9_BodyIsLastQuery ==
    (last.call = "Do" /\ last.sent # <<>>) =>
        Sent.body = IF added.query # NilQuery
                    THEN << <<"query", QuerySource(added.query)>> >>
                    ELSE <<>>

\* C10: when the HTTP client returned a response, its body is closed by
\* the time Do returns
C10_ResponseBodyClosed ==
    (last.call = "Do" /\ last.body # "none") => last.body = "closed"

====
